---- MODULE Spec2Model ----
(***************************************************************************)
(* The simulation engine of YUME-Coin Catcher (the Game component): the    *)
(* React state gameState and everything that replaces it: the gameLoop     *)
(* tick, the one-second interval, the jump input, the power-up expiry      *)
(* callbacks armed with setTimeout, and restartGame.                       *)
(*                                                                         *)
(* Numbers.  The source computes in IEEE doubles.  Every length and        *)
(* velocity here is an integer count of 1/Scale logical pixels, so that    *)
(* GRAVITY = 0.3 and the difficulty step 0.2 are exact; deltaTime is in    *)
(* milliseconds and is drawn from multiples of 16, for which the scroll    *)
(* distance speed * deltaTime / 16 is exact as well.                       *)
(*                                                                         *)
(* Left out: rotation (both entity kinds) and the obstacle's type, which   *)
(* only the rendering reads; the viewport scaling; the share link.         *)
(***************************************************************************)
EXTENDS Integers, Sequences, FiniteSets, TLC

VARIABLES
    gameState,   \* the useState snapshot (GameState)
    timeouts,    \* pending setTimeout expiry callbacks, in arming order
    timerRef,    \* TRUE while the setInterval of the timer effect is installed
    effectDeps,  \* <<isGameOver, isPaused>> seen by the last run of the timer effect
    ticks,       \* executed pipeline runs in the current session (bounded)
    fires,       \* interval callbacks run in the current session (bounded)
    jumps,       \* handleInteraction calls in the current session (bounded)
    lastAct,     \* history: the handler that ran last (see Did)
    pre          \* history: gameState before that handler ran

vars == <<gameState, timeouts, timerRef, effectDeps, ticks, fires, jumps,
          lastAct, pre>>

----------------------------------------------------------------------------
(* Bounds of the model *)

MaxTicks == 3
MaxTimerFires == 1
MaxJumps == 1
MaxTimeouts == 2

\* deltaTime values (ms) of an executed tick: the long frames after which an
\* obstacle, respectively a collectible, spawned at the right edge meets the
\* player
DeltaTimes == {2880, 3680}

----------------------------------------------------------------------------
(* Program constants *)

Scale == 10

BASE_GAME_WIDTH == 800
BASE_GAME_HEIGHT == 600
GRAVITY == 3
JUMP_FORCE == -7 * Scale
PLAYER_SIZE == 40
INITIAL_TIME == 30

CollectibleTypes == {"token", "moonRocket", "diamondHands"}

TIME_BONUS == [token |-> 2, moonRocket |-> 5, diamondHands |-> 3]
SCORE_VALUES == [token |-> 10, moonRocket |-> 15, diamondHands |-> 20]

BASE_HORIZONTAL_SPEED == 3
BASE_OBSTACLE_SPEED == 4

\* spawn probabilities per tick, in thousandths: 0.015 and 0.008, and the
\* caps 0.03 and 0.02 of getSpawnRates
BASE_SPAWN_RATE == [collectible |-> 15, obstacle |-> 8]
SPAWN_RATE_CAP == [collectible |-> 30, obstacle |-> 20]

DOUBLE_POINTS_MS == 5000
INVINCIBLE_MS == 3000

\* y of a spawned entity: Math.random() * (BASE_GAME_HEIGHT - PLAYER_SIZE),
\* a value of [0, 560); here the player's start height
SpawnYs == {(BASE_GAME_HEIGHT \div 2) * Scale}

Max(a, b) == IF a >= b THEN a ELSE b
Min(a, b) == IF a <= b THEN a ELSE b

----------------------------------------------------------------------------
(* Difficulty model *)

\* getDifficultyMultiplier stepping by 0.1 every 50 points
getDifficultyMultiplierHalfSteps(score) == Scale + (score \div 50)

\* 1 + Math.floor(score / 100) * 0.2, in units of 1/Scale
getDifficultyMultiplier(score) == Scale + (score \div 100) * 2

\* spawn probabilities per tick, in thousandths times Scale (the
\* multiplier's unit)
getSpawnRates(score) ==
    LET multiplier == getDifficultyMultiplier(score)
    IN  [collectible |-> Min(BASE_SPAWN_RATE.collectible * multiplier,
                             SPAWN_RATE_CAP.collectible * Scale),
         obstacle    |-> Min(BASE_SPAWN_RATE.obstacle * multiplier,
                             SPAWN_RATE_CAP.obstacle * Scale)]

\* speeds, in 1/Scale pixels per 16 ms, times Scale (the multiplier's unit)
getSpeeds(score) ==
    [horizontal |-> BASE_HORIZONTAL_SPEED * getDifficultyMultiplier(score),
     obstacle   |-> BASE_OBSTACLE_SPEED * getDifficultyMultiplier(score)]

----------------------------------------------------------------------------
(* Initial state *)

initialPlayer ==
    [x |-> 100 * Scale,
     y |-> (BASE_GAME_HEIGHT \div 2) * Scale,
     width |-> PLAYER_SIZE * Scale,
     height |-> PLAYER_SIZE * Scale,
     velocity |-> 0,
     isInvincible |-> FALSE,
     hasDoublePoints |-> FALSE]

initialGameState ==
    [player |-> initialPlayer,
     collectibles |-> <<>>,
     obstacles |-> <<>>,
     score |-> 0,
     timeLeft |-> INITIAL_TIME,
     isGameOver |-> FALSE,
     isPaused |-> FALSE]

\* timeLeft when the first frame is executed: the interval runs whether or not
\* frames are delivered, so it may have fired any number of times by then
StartTimes == {INITIAL_TIME, 1, 0}

\* the mounted component: the first render with the timer effect run
Init ==
    /\ \E t \in StartTimes : gameState = [initialGameState EXCEPT !.timeLeft = t]
    /\ timeouts = <<>>
    /\ timerRef = TRUE
    /\ effectDeps = <<FALSE, FALSE>>
    /\ ticks = 0
    /\ fires = 0
    /\ jumps = 0
    /\ lastAct = [op |-> "init", stale |-> FALSE, collected |-> 0, armed |-> <<>>]
    /\ pre = gameState

----------------------------------------------------------------------------
(* Entity factory *)

spawnCollectible(type, y) ==
    [type |-> type,
     x |-> BASE_GAME_WIDTH * Scale,
     y |-> y,
     width |-> PLAYER_SIZE * Scale,
     height |-> PLAYER_SIZE * Scale]

\* width and height are PLAYER_SIZE * 1.5
spawnObstacle(y) ==
    [x |-> BASE_GAME_WIDTH * Scale,
     y |-> y,
     width |-> (PLAYER_SIZE * 3 * Scale) \div 2,
     height |-> (PLAYER_SIZE * 3 * Scale) \div 2]

----------------------------------------------------------------------------
(* Collision resolver *)

\* the axis-aligned overlap test of checkCollisions, used for both kinds
hasCollided(player, e) ==
    /\ player.x < e.x + e.width
    /\ player.x + player.width > e.x
    /\ player.y < e.y + e.height
    /\ player.y + player.height > e.y

updateScore(collectibleType, hasDoublePoints) ==
    SCORE_VALUES[collectibleType] * (IF hasDoublePoints THEN 2 ELSE 1)

\* the setTimeout armed by a pickup: the flag its callback clears and its delay
Timeout(flag, delay) == [flag |-> flag, delay |-> delay, stale |-> FALSE]

\* CollectStep arming no expiry for a diamondHands
CollectStepNoInvincibleExpiry(acc, player, c) ==
    IF hasCollided(player, c)
    THEN [acc EXCEPT
            !.timeBonus = @ + TIME_BONUS[c.type],
            !.newScore = @ + updateScore(c.type, player.hasDoublePoints),
            !.hasDoublePoints = IF c.type = "moonRocket" THEN TRUE ELSE @,
            !.isInvincible = IF c.type = "diamondHands" THEN TRUE ELSE @,
            !.armed = IF c.type = "moonRocket"
                        THEN Append(@, Timeout("hasDoublePoints", DOUBLE_POINTS_MS))
                      ELSE @]
    ELSE [acc EXCEPT !.remaining = Append(@, c)]

\* CollectStep whose filter callback keeps the collectible it collected
CollectStepKeepsCollected(acc, player, c) ==
    IF hasCollided(player, c)
    THEN [acc EXCEPT
            !.remaining = Append(@, c),
            !.timeBonus = @ + TIME_BONUS[c.type],
            !.newScore = @ + updateScore(c.type, player.hasDoublePoints),
            !.hasDoublePoints = IF c.type = "moonRocket" THEN TRUE ELSE @,
            !.isInvincible = IF c.type = "diamondHands" THEN TRUE ELSE @,
            !.armed = IF c.type = "moonRocket"
                        THEN Append(@, Timeout("hasDoublePoints", DOUBLE_POINTS_MS))
                      ELSE IF c.type = "diamondHands"
                        THEN Append(@, Timeout("isInvincible", INVINCIBLE_MS))
                      ELSE @]
    ELSE [acc EXCEPT !.remaining = Append(@, c)]

\* CollectStep collecting at most one collectible per call of checkCollisions
CollectStepOnePerTick(acc, player, c) ==
    IF hasCollided(player, c) /\ acc.timeBonus = 0
    THEN [acc EXCEPT
            !.timeBonus = @ + TIME_BONUS[c.type],
            !.newScore = @ + updateScore(c.type, player.hasDoublePoints),
            !.hasDoublePoints = IF c.type = "moonRocket" THEN TRUE ELSE @,
            !.isInvincible = IF c.type = "diamondHands" THEN TRUE ELSE @,
            !.armed = IF c.type = "moonRocket"
                        THEN Append(@, Timeout("hasDoublePoints", DOUBLE_POINTS_MS))
                      ELSE IF c.type = "diamondHands"
                        THEN Append(@, Timeout("isInvincible", INVINCIBLE_MS))
                      ELSE @]
    ELSE [acc EXCEPT !.remaining = Append(@, c)]

\* CollectStep with the score assigned instead of accumulated
CollectStepAssignsScore(acc, player, c) ==
    IF hasCollided(player, c)
    THEN [acc EXCEPT
            !.timeBonus = @ + TIME_BONUS[c.type],
            !.newScore = updateScore(c.type, player.hasDoublePoints),
            !.hasDoublePoints = IF c.type = "moonRocket" THEN TRUE ELSE @,
            !.isInvincible = IF c.type = "diamondHands" THEN TRUE ELSE @,
            !.armed = IF c.type = "moonRocket"
                        THEN Append(@, Timeout("hasDoublePoints", DOUBLE_POINTS_MS))
                      ELSE IF c.type = "diamondHands"
                        THEN Append(@, Timeout("isInvincible", INVINCIBLE_MS))
                      ELSE @]
    ELSE [acc EXCEPT !.remaining = Append(@, c)]

\* one call of the filter callback of checkCollisions on collectible c;
\* acc holds the locals newScore, isInvincible, hasDoublePoints, timeBonus,
\* the collectibles kept so far and the timeouts armed so far
CollectStep(acc, player, c) ==
    IF hasCollided(player, c)
    THEN [acc EXCEPT
            !.timeBonus = @ + TIME_BONUS[c.type],
            !.newScore = @ + updateScore(c.type, player.hasDoublePoints),
            !.hasDoublePoints = IF c.type = "moonRocket" THEN TRUE ELSE @,
            !.isInvincible = IF c.type = "diamondHands" THEN TRUE ELSE @,
            !.armed = IF c.type = "moonRocket"
                        THEN Append(@, Timeout("hasDoublePoints", DOUBLE_POINTS_MS))
                      ELSE IF c.type = "diamondHands"
                        THEN Append(@, Timeout("isInvincible", INVINCIBLE_MS))
                      ELSE @]
    ELSE [acc EXCEPT !.remaining = Append(@, c)]

RECURSIVE CollectFold(_, _, _)
CollectFold(acc, player, cs) ==
    IF cs = <<>> THEN acc
    ELSE CollectFold(CollectStep(acc, player, Head(cs)), player, Tail(cs))

hasHitObstacle(player, obstacles) ==
    \E i \in 1..Len(obstacles) : hasCollided(player, obstacles[i])

\* FatalCondition with the time test strict
FatalConditionStrict(hit, isInvincible, timeLeft) ==
    (hit /\ ~isInvincible) \/ timeLeft < 0

\* FatalCondition without the invincibility test
FatalConditionNoShield(hit, isInvincible, timeLeft) ==
    hit \/ timeLeft <= 0

\* the isGameOver field of the state checkCollisions returns
FatalCondition(hit, isInvincible, timeLeft) ==
    (hit /\ ~isInvincible) \/ timeLeft <= 0

\* TimeChecked reading the time-left after the tick's bonus
TimeCheckedAfterBonus(timeLeft, timeBonus) == timeLeft + timeBonus

\* the time-left that the fatal test reads: state.timeLeft, not the new timeLeft
TimeChecked(timeLeft, timeBonus) == timeLeft

\* checkCollisions testing the isInvincible of the state it was given
checkCollisionsFlagAtStart(state) ==
    LET acc == CollectFold(
                 [remaining |-> <<>>,
                  newScore |-> state.score,
                  isInvincible |-> state.player.isInvincible,
                  hasDoublePoints |-> state.player.hasDoublePoints,
                  timeBonus |-> 0,
                  armed |-> <<>>],
                 state.player, state.collectibles)
    IN  [state |->
           [state EXCEPT
              !.player = [@ EXCEPT !.isInvincible = acc.isInvincible,
                                   !.hasDoublePoints = acc.hasDoublePoints],
              !.collectibles = acc.remaining,
              !.score = acc.newScore,
              !.timeLeft = state.timeLeft + acc.timeBonus,
              !.isGameOver = FatalCondition(
                               hasHitObstacle(state.player, state.obstacles),
                               state.player.isInvincible,
                               TimeChecked(state.timeLeft, acc.timeBonus))],
         armed |-> acc.armed,
         collected |-> Len(state.collectibles) - Len(acc.remaining)]

\* checkCollisions(state): the state it returns and the timeouts it arms
checkCollisions(state) ==
    LET acc == CollectFold(
                 [remaining |-> <<>>,
                  newScore |-> state.score,
                  isInvincible |-> state.player.isInvincible,
                  hasDoublePoints |-> state.player.hasDoublePoints,
                  timeBonus |-> 0,
                  armed |-> <<>>],
                 state.player, state.collectibles)
    IN  [state |->
           [state EXCEPT
              !.player = [@ EXCEPT !.isInvincible = acc.isInvincible,
                                   !.hasDoublePoints = acc.hasDoublePoints],
              !.collectibles = acc.remaining,
              !.score = acc.newScore,
              !.timeLeft = state.timeLeft + acc.timeBonus,
              !.isGameOver = FatalCondition(
                               hasHitObstacle(state.player, state.obstacles),
                               acc.isInvincible,
                               TimeChecked(state.timeLeft, acc.timeBonus))],
         armed |-> acc.armed,
         collected |-> Len(state.collectibles) - Len(acc.remaining)]

----------------------------------------------------------------------------
(* Physics integrator and spawner/scroller: the updater of gameLoop *)

\* movePlayer without the clamp at the top edge
movePlayerNoTopClamp(player) ==
    LET newVelocity == player.velocity + GRAVITY
        newY == player.y + newVelocity
        floorY == (BASE_GAME_HEIGHT - PLAYER_SIZE) * Scale
    IN  IF newY > floorY
        THEN [player EXCEPT !.y = floorY, !.velocity = 0]
        ELSE [player EXCEPT !.y = newY, !.velocity = newVelocity]

\* gravity, integration and the floor/ceiling clamps
movePlayer(player) ==
    LET newVelocity == player.velocity + GRAVITY
        newY == player.y + newVelocity
        floorY == (BASE_GAME_HEIGHT - PLAYER_SIZE) * Scale
        p1 == IF newY > floorY
              THEN [player EXCEPT !.y = floorY, !.velocity = 0]
              ELSE [player EXCEPT !.y = newY, !.velocity = newVelocity]
    IN  IF p1.y < 0
        THEN [p1 EXCEPT !.y = 0, !.velocity = Max(0, p1.velocity)]
        ELSE p1

\* .filter(e => e.x > -PLAYER_SIZE).map(e => ({...e, x: e.x - move}))
scroll(es, move) ==
    LET kept == SelectSeq(es, LAMBDA e : e.x > -(PLAYER_SIZE * Scale))
    IN  [i \in 1..Len(kept) |-> [kept[i] EXCEPT !.x = @ - move]]

\* speed * timeScale, timeScale = deltaTime / 16; speed carries a factor Scale
moveBy(speed, deltaTime) == (speed * deltaTime) \div 16

\* the body of the updater that gameLoop passes to setGameState, past its
\* early return; newC and newO are the entities spawned in this tick (<<>> or
\* one entity each)
pipeline(prev, deltaTime, newC, newO) ==
    LET speeds == getSpeeds(prev.score)
        newState ==
          [prev EXCEPT
             !.player = movePlayer(@),
             !.collectibles =
                 scroll(@, moveBy(speeds.horizontal, deltaTime)) \o newC,
             !.obstacles =
                 scroll(@, moveBy(speeds.obstacle, deltaTime)) \o newO]
    IN  checkCollisions(newState)

\* gameLoop without the early return
gameLoopUnguarded(prev, deltaTime, newC, newO) ==
    pipeline(prev, deltaTime, newC, newO)

\* the updater that gameLoop passes to setGameState
gameLoop(prev, deltaTime, newC, newO) ==
    IF prev.isGameOver \/ prev.isPaused
    THEN [state |-> prev, armed |-> <<>>, collected |-> 0]
    ELSE pipeline(prev, deltaTime, newC, newO)

----------------------------------------------------------------------------
(* Handlers *)

\* the deps of the timer effect as of the current render
Deps == <<gameState.isGameOver, gameState.isPaused>>

\* a render has committed whose timer effect has not run yet
EffectPending == effectDeps # Deps

\* history records: the handler; for an expiry callback (op is the flag it
\* clears) whether it was armed before the last restart; for a tick how many
\* collectibles it collected and the timeouts it armed
Did(op) == [op |-> op, stale |-> FALSE, collected |-> 0, armed |-> <<>>]

Playing(state) == ~state.isGameOver /\ ~state.isPaused

\* what a tick may spawn: Math.random() < rate decides whether, the factory what
SpawnedCollectibles ==
    {<<>>} \cup {<<spawnCollectible(t, y)>> : t \in CollectibleTypes, y \in SpawnYs}
SpawnedObstacles ==
    {<<>>} \cup {<<spawnObstacle(y)>> : y \in SpawnYs}

\* the ticks explored spawn at most one entity
Spawned ==
    {sp \in SpawnedCollectibles \X SpawnedObstacles : sp[1] = <<>> \/ sp[2] = <<>>}

\* the power-ups that are on the playfield or whose expiry is pending
Outstanding ==
    Len(timeouts)
    + Len(SelectSeq(gameState.collectibles, LAMBDA c : c.type # "token"))

\* one gameLoop call with deltaTime > 16: the state it sets, the timeouts it arms
TickStep(deltaTime, newC, newO) ==
    \E r \in {gameLoop(gameState, deltaTime, newC, newO)} :
        /\ gameState' = r.state
        /\ timeouts' = timeouts \o r.armed
        /\ lastAct' = [Did("tick") EXCEPT !.collected = r.collected,
                                          !.armed = r.armed]
        /\ pre' = gameState

\* gameLoop with deltaTime > 16, its inputs drawn from the given sets: deltaTime
\* and the pair of what the two factories add (<<>> when one does not spawn)
TickWith(deltaTimes, spawned) ==
    /\ ~EffectPending
    /\ IF ~Playing(gameState)
       THEN /\ \E deltaTime \in deltaTimes : TickStep(deltaTime, <<>>, <<>>)
            /\ UNCHANGED ticks
       ELSE /\ ticks < MaxTicks
            /\ \E deltaTime \in deltaTimes, sp \in spawned :
                 /\ IF sp[1] = <<>> \/ Outstanding < MaxTimeouts
                    THEN TRUE ELSE sp[1][1].type = "token"
                 /\ TickStep(deltaTime, sp[1], sp[2])
            /\ ticks' = ticks + 1
    /\ UNCHANGED <<timerRef, effectDeps, fires, jumps>>

\* jumpUpdate adding the impulse to the current velocity
jumpUpdateAccumulates(prev) ==
    [prev EXCEPT !.player.velocity = @ + JUMP_FORCE]

\* jumpUpdate spreading initialPlayer instead of prev.player
jumpUpdateFromInitial(prev) ==
    [prev EXCEPT !.player = [initialPlayer EXCEPT !.velocity = JUMP_FORCE]]

\* the updater of handleInteraction
jumpUpdate(prev) == [prev EXCEPT !.player.velocity = JUMP_FORCE]

JumpStep ==
    /\ ~EffectPending
    /\ gameState' = jumpUpdate(gameState)
    /\ lastAct' = Did("jump")
    /\ pre' = gameState
    /\ UNCHANGED <<timeouts, timerRef, effectDeps, ticks, fires>>

\* handleInteraction (Space, click or touch)
Jump ==
    /\ jumps < MaxJumps
    /\ jumps' = jumps + 1
    /\ JumpStep

\* the timer effect: cleanup of the previous run, then the new run
TimerEffect ==
    /\ EffectPending
    /\ timerRef' = (~gameState.isGameOver /\ ~gameState.isPaused)
    /\ effectDeps' = Deps
    /\ lastAct' = Did("effect")
    /\ pre' = gameState
    /\ UNCHANGED <<gameState, timeouts, ticks, fires, jumps>>

\* timerUpdate without the floor at 0
timerUpdateNoFloor(prev) == [prev EXCEPT !.timeLeft = prev.timeLeft - 1]

\* the updater of the setInterval callback
timerUpdate(prev) == [prev EXCEPT !.timeLeft = Max(0, prev.timeLeft - 1)]

\* the setInterval callback, which runs for as long as the interval is installed
TimerFire ==
    /\ timerRef
    /\ fires < MaxTimerFires
    /\ gameState' = timerUpdate(gameState)
    /\ fires' = fires + 1
    /\ lastAct' = Did("timer")
    /\ pre' = gameState
    /\ UNCHANGED <<timeouts, timerRef, effectDeps, ticks, jumps>>

\* timeouts fire in the order of their deadlines: timeout i is due before
\* every timeout armed later with the same or a longer delay
CanFire(i) ==
    \A j \in 1..(i - 1) : timeouts[j].delay > timeouts[i].delay

Without(s, i) == SubSeq(s, 1, i - 1) \o SubSeq(s, i + 1, Len(s))

\* expireUpdate leaving the flag set while a later expiry for it is pending
expireUpdateUnlessRearmed(prev, flag) ==
    IF Len(SelectSeq(timeouts, LAMBDA t : t.flag = flag)) > 1
    THEN prev
    ELSE IF flag = "hasDoublePoints"
    THEN [prev EXCEPT !.player.hasDoublePoints = FALSE]
    ELSE [prev EXCEPT !.player.isInvincible = FALSE]

\* the updater of a setTimeout callback: it clears the one flag
expireUpdate(prev, flag) ==
    IF flag = "hasDoublePoints"
    THEN [prev EXCEPT !.player.hasDoublePoints = FALSE]
    ELSE [prev EXCEPT !.player.isInvincible = FALSE]

\* a setTimeout callback armed by checkCollisions
Expire ==
    /\ ~EffectPending
    /\ \E i \in 1..Len(timeouts) :
         /\ CanFire(i)
         /\ gameState' = expireUpdate(gameState, timeouts[i].flag)
         /\ timeouts' = Without(timeouts, i)
         /\ lastAct' = [Did(timeouts[i].flag) EXCEPT !.stale = timeouts[i].stale]
    /\ pre' = gameState
    /\ UNCHANGED <<timerRef, effectDeps, ticks, fires, jumps>>

\* restartState keeping the player as it is
restartStateKeepsPlayer == [initialGameState EXCEPT !.player = gameState.player]

\* the state restartGame sets
restartState == initialGameState

\* restartGame, the handler of the Play Again button of the game-over overlay;
\* the pending timeouts are not cleared: they are now of a previous session
restartGame ==
    /\ ~EffectPending
    /\ gameState.isGameOver
    /\ gameState' = restartState
    /\ timeouts' = [i \in 1..Len(timeouts) |-> [timeouts[i] EXCEPT !.stale = TRUE]]
    /\ ticks' = 0
    /\ fires' = 0
    /\ jumps' = 0
    /\ lastAct' = Did("restart")
    /\ pre' = gameState
    /\ UNCHANGED <<timerRef, effectDeps>>

Tick == TickWith(DeltaTimes, Spawned)

Next ==
    \/ Tick
    \/ Jump
    \/ TimerEffect
    \/ TimerFire
    \/ Expire
    \/ restartGame

Spec == Init /\ [][Next]_vars

----------------------------------------------------------------------------
(* The player's physics alone: ticks on an empty playfield and jumps, with no *)
(* bound on either, from the fresh session                                    *)

FreeTick ==
    /\ ~EffectPending
    /\ \E deltaTime \in DeltaTimes : TickStep(deltaTime, <<>>, <<>>)
    /\ UNCHANGED <<timerRef, effectDeps, ticks, fires, jumps>>

FreeJump ==
    /\ JumpStep
    /\ UNCHANGED jumps

InitPhysics == Init /\ gameState = initialGameState

NextPhysics ==
    \/ FreeTick
    \/ FreeJump

SpecPhysics == InitPhysics /\ [][NextPhysics]_vars

----------------------------------------------------------------------------
(* The keyboard: the keydown listener installed by the mount effect.  The     *)
(* component has no other input than this, the click and the touch (which     *)
(* call handleInteraction) and the Play Again button.                         *)

KeyCodes == {"Space", "KeyP", "Escape"}

\* handleKeyPress: Space calls handleInteraction, any other key does nothing
handleKeyPress ==
    \E code \in KeyCodes :
        IF code = "Space"
        THEN Jump
        ELSE /\ lastAct' = Did(code)
             /\ pre' = gameState
             /\ UNCHANGED <<gameState, timeouts, timerRef, effectDeps,
                            ticks, fires, jumps>>

NextKeys ==
    \/ Next
    \/ handleKeyPress

SpecKeys == Init /\ [][NextKeys]_vars

----------------------------------------------------------------------------
(* Scrolling and spawning alone: a frame of 3392 ms leaves an entity spawned  *)
(* at the right edge a little past the left edge (an obstacle at x = -48, a   *)
(* collectible at x = 164), a frame of 2880 ms carries an obstacle onto the   *)
(* player; the factories draw y = Math.random() * 560 from the two ends of    *)
(* its range [0, 560) and from the middle                                     *)

ScrollDeltaTimes == {2880, 3392}

FactoryYs == SpawnYs \cup {0, (BASE_GAME_HEIGHT - PLAYER_SIZE) * Scale - 1}

SpawnedAnywhere ==
    {<<(<<>>), (<<>>)>>}
    \cup {<<(<<spawnCollectible("token", y)>>), (<<>>)>> : y \in FactoryYs}
    \cup {<<(<<>>), (<<spawnObstacle(y)>>)>> : y \in FactoryYs}

TickScroll == TickWith(ScrollDeltaTimes, SpawnedAnywhere)

NextScroll ==
    \/ TickScroll
    \/ TimerEffect

SpecScroll == InitPhysics /\ [][NextScroll]_vars

----------------------------------------------------------------------------
(* The difficulty model over the scores: sessions that have reached score s   *)
(* (scores are sums of 10, 15, 20 and their doubles) with the player at rest  *)
(* on the floor and an empty playfield, and the frames that follow, which     *)
(* scroll what they spawn at the speeds of that score                         *)

MaxLevel == 9

Scores == {s \in 0..(MaxLevel * 100 + 99) : s % 5 = 0 /\ s # 5}

DifficultyDeltaTimes == {32}

InitDifficulty ==
    /\ \E s \in Scores :
          gameState =
            [initialGameState EXCEPT
               !.score = s,
               !.player.y = (BASE_GAME_HEIGHT - PLAYER_SIZE) * Scale]
    /\ timeouts = <<>>
    /\ timerRef = TRUE
    /\ effectDeps = <<FALSE, FALSE>>
    /\ ticks = 0
    /\ fires = 0
    /\ jumps = 0
    /\ lastAct = Did("init")
    /\ pre = gameState

TickDifficulty == TickWith(DifficultyDeltaTimes, Spawned)

SpecDifficulty == InitDifficulty /\ [][TickDifficulty]_vars

----------------------------------------------------------------------------
(* A pickup and an obstacle in one tick: a collectible spawned one frame of   *)
(* 800 ms before an obstacle is 150 px ahead of it, and a frame of 2880 ms    *)
(* then carries both onto the player (the collectible to x = 110, the         *)
(* obstacle to x = 80)                                                        *)

SameTickDeltaTimes == {800, 2880}

SpawnedShieldOrObstacle ==
    {sp \in Spawned : IF sp[1] = <<>> THEN TRUE
                      ELSE sp[1][1].type = "diamondHands"}

TickSameTick == TickWith(SameTickDeltaTimes, SpawnedShieldOrObstacle)

NextSameTick ==
    \/ TickSameTick
    \/ Expire
    \/ TimerEffect

SpecSameTick == InitPhysics /\ [][NextSameTick]_vars

----------------------------------------------------------------------------
(* Pickups alone: frames of 32 ms between the spawns put several collectibles *)
(* within the player's width of each other, a frame of 3680 ms carries them   *)
(* onto the player; no obstacles                                               *)

PickupDeltaTimes == {32, 3680}

SpawnedPickups == {sp \in Spawned : sp[2] = <<>>}

TickPickups == TickWith(PickupDeltaTimes, SpawnedPickups)

NextPickups ==
    \/ TickPickups
    \/ Expire

SpecPickups == InitPhysics /\ [][NextPickups]_vars

----------------------------------------------------------------------------
(* Properties.  Each is a predicate on the state reached by the last handler *)
(* (lastAct) from the snapshot pre.                                          *)

ExecutedTick == lastAct.op = "tick" /\ Playing(pre)

ExpiryRan == lastAct.op \in {"hasDoublePoints", "isInvincible"}

\* the player's box overlaps the box of at least one obstacle of state
OverlapsObstacle(state) ==
    \E i \in 1..Len(state.obstacles) :
        LET p == state.player
            o == state.obstacles[i]
        IN  /\ p.x < o.x + o.width /\ o.x < p.x + p.width
            /\ p.y < o.y + o.height /\ o.y < p.y + p.height

PendingOwn(flag) ==
    \E i \in 1..Len(timeouts) : timeouts[i].flag = flag /\ ~timeouts[i].stale

\* C1: an expiry callback armed before a restart and run after it is a no-op:
\* it leaves isInvincible and hasDoublePoints of the new session as they were.
C1_StaleExpiryIsNoOp ==
    (ExpiryRan /\ lastAct.stale) =>
        /\ gameState.player.isInvincible = pre.player.isInvincible
        /\ gameState.player.hasDoublePoints = pre.player.hasDoublePoints

\* C2: restartGame yields exactly the default session: score 0, timeLeft 30,
\* the player at x = 100, y = 300 at rest with both flags off, no entities,
\* neither game-over nor paused.
C2_RestartYieldsDefault ==
    lastAct.op = "restart" =>
        gameState = [player |-> [x |-> 100 * Scale, y |-> 300 * Scale,
                                 width |-> 40 * Scale, height |-> 40 * Scale,
                                 velocity |-> 0, isInvincible |-> FALSE,
                                 hasDoublePoints |-> FALSE],
                     collectibles |-> <<>>, obstacles |-> <<>>,
                     score |-> 0, timeLeft |-> 30,
                     isGameOver |-> FALSE, isPaused |-> FALSE]

\* a restart from a session that had scored, held entities and a flag
C2_Witness ==
    /\ lastAct.op = "restart"
    /\ pre.score > 0
    /\ pre.obstacles # <<>>
    /\ pre.player.hasDoublePoints
    /\ pre.player.y # 300 * Scale

\* C3: isGameOver turns true only in an executed tick whose fatal condition
\* holds; once true it survives every tick, timer firing, jump and expiry
\* callback; only restartGame turns it false.
C3_GameOverOnlyByFatalTick ==
    /\ (~pre.isGameOver /\ gameState.isGameOver) =>
          /\ ExecutedTick
          /\ \/ OverlapsObstacle(gameState) /\ ~gameState.player.isInvincible
             \/ pre.timeLeft <= 0
    /\ (pre.isGameOver /\ ~gameState.isGameOver) => lastAct.op = "restart"

\* a game-over session in which an expiry callback has just cleared its flag
C3_Witness ==
    /\ pre.isGameOver /\ gameState.isGameOver
    /\ ExpiryRan
    /\ gameState.player # pre.player

\* C4: after a tick executed while playing, isGameOver is true exactly when
\* the moved player overlaps an obstacle and is not invincible, or the
\* time-left at the start of the tick was <= 0.
C4_FatalCondition ==
    ExecutedTick =>
        (gameState.isGameOver <=>
            \/ OverlapsObstacle(gameState) /\ ~gameState.player.isInvincible
            \/ pre.timeLeft <= 0)

\* a tick with time left in which a non-invincible player met an obstacle
C4_Witness ==
    /\ ExecutedTick
    /\ pre.timeLeft > 0
    /\ OverlapsObstacle(gameState)
    /\ ~gameState.player.isInvincible
    /\ gameState.isGameOver

\* C5: a tick executed with timeLeft = 0 (the timer has run it down) sets
\* isGameOver, also when that tick's pickups raise timeLeft above 0 again.
C5_TimeUpEndsSession ==
    (ExecutedTick /\ pre.timeLeft = 0) => gameState.isGameOver

\* the tick after the timer reached 0 collected a time bonus and still ended
C5_Witness ==
    /\ ExecutedTick
    /\ pre.timeLeft = 0
    /\ lastAct.collected > 0
    /\ gameState.timeLeft > 0
    /\ gameState.isGameOver

C7_TimeLeftNonNegative == gameState.timeLeft >= 0

\* the timer fired with no time left and timeLeft stayed 0
C7_Witness ==
    /\ lastAct.op = "timer"
    /\ pre.timeLeft = 0
    /\ gameState.timeLeft = 0

\* C8: only restartGame lowers score; apart from it score changes only in an
\* executed tick that collects something.
C8_ScoreMonotone ==
    /\ gameState.score < pre.score => lastAct.op = "restart"
    /\ (gameState.score # pre.score /\ lastAct.op # "restart")
        => (ExecutedTick /\ lastAct.collected > 0)

\* a tick raised a score that was already positive
C8_Witness ==
    /\ ExecutedTick
    /\ pre.score > 0
    /\ gameState.score > pre.score

\* C9: the player's y stays within [0, 560]; a tick that clamps y to 0 leaves
\* velocity >= 0, a tick that clamps y to 560 leaves velocity 0.
C9_PlayerInPlayfield ==
    /\ gameState.player.y >= 0
    /\ gameState.player.y <= 560 * Scale
    /\ (ExecutedTick /\ pre.player.y + pre.player.velocity + GRAVITY < 0)
        => (gameState.player.y = 0 /\ gameState.player.velocity >= 0)
    /\ (ExecutedTick /\ pre.player.y + pre.player.velocity + GRAVITY > 560 * Scale)
        => (gameState.player.y = 560 * Scale /\ gameState.player.velocity = 0)

\* a rising player was stopped at the top edge
C9_Witness ==
    /\ ExecutedTick
    /\ pre.player.y + pre.player.velocity + GRAVITY < 0
    /\ gameState.player.y = 0

\* C10 as claimed: while paused or game-over nothing but restart (or resume)
\* changes the session.
C10_OnlyExplicitTransitions ==
    (~Playing(pre) /\ lastAct.op # "restart") => gameState = pre

\* C10 as amended: while game-over a tick leaves the snapshot unchanged; the
\* other handlers except restart change at most one field: a jump the
\* player's velocity, an expiry callback its flag, a timer firing timeLeft.
C10_GameOverFrame ==
    (~Playing(pre) /\ lastAct.op # "restart") =>
        /\ lastAct.op \in {"tick", "effect", "init"} => gameState = pre
        /\ lastAct.op = "jump" =>
              gameState = [pre EXCEPT !.player.velocity = -7 * Scale]
        /\ lastAct.op = "hasDoublePoints" =>
              gameState = [pre EXCEPT !.player.hasDoublePoints = FALSE]
        /\ lastAct.op = "isInvincible" =>
              gameState = [pre EXCEPT !.player.isInvincible = FALSE]
        /\ lastAct.op = "timer" =>
              \E t \in {pre.timeLeft, pre.timeLeft - 1} :
                  gameState = [pre EXCEPT !.timeLeft = t]

\* a tick ran on a game-over session that holds entities
C10_Witness ==
    /\ lastAct.op = "tick"
    /\ pre.isGameOver
    /\ pre.obstacles # <<>>
    /\ gameState = pre

\* C11: a firing of the one-second timer lowers timeLeft by exactly 1, floored
\* at 0, and changes nothing else; on a session that is game-over or paused it
\* does not lower timeLeft.
C11_TimerOnlyWhilePlaying ==
    lastAct.op = "timer" =>
        gameState = [pre EXCEPT
                       !.timeLeft = IF Playing(pre) THEN Max(0, @ - 1) ELSE @]

\* the collectibles of kind t that the last tick collected: those on the
\* playfield before it that are not among the ones it carried over (a
\* collectible spawned in the tick sits at the right edge)
PickedUp(t) ==
    Len(SelectSeq(pre.collectibles,
                  LAMBDA c : c.type = t /\ c.x > -(40 * Scale)))
    - Len(SelectSeq(gameState.collectibles,
                    LAMBDA c : c.type = t /\ c.x < 800 * Scale))

\* the player's box meets the box of entity e
Overlaps(player, e) ==
    /\ player.x < e.x + e.width
    /\ e.x < player.x + player.width
    /\ player.y < e.y + e.height
    /\ e.y < player.y + player.height

\* C12: an executed tick collects every collectible that overlaps the player,
\* however many; score rises by the sum of 10 / 15 / 20 per token / moonRocket
\* / diamondHands collected, doubled if hasDoublePoints was set when the tick
\* started, and timeLeft by the sum of 2 / 5 / 3.
C12_AllPickupsHonoured ==
    ExecutedTick =>
        LET factor == IF pre.player.hasDoublePoints THEN 2 ELSE 1
        IN  /\ \A i \in 1..Len(gameState.collectibles) :
                  ~Overlaps(gameState.player, gameState.collectibles[i])
            /\ lastAct.collected =
                  PickedUp("token") + PickedUp("moonRocket")
                  + PickedUp("diamondHands")
            /\ gameState.score - pre.score =
                  factor * (10 * PickedUp("token") + 15 * PickedUp("moonRocket")
                            + 20 * PickedUp("diamondHands"))
            /\ gameState.timeLeft - pre.timeLeft =
                  2 * PickedUp("token") + 5 * PickedUp("moonRocket")
                  + 3 * PickedUp("diamondHands")

\* one tick collected a token and a moonRocket
C12_Witness ==
    /\ ExecutedTick
    /\ lastAct.collected = 2
    /\ PickedUp("token") = 1
    /\ PickedUp("moonRocket") = 1
    /\ gameState.score = pre.score + 25
    /\ gameState.timeLeft = pre.timeLeft + 7

\* the collectibles a tick carried over from the snapshot before it
CarriedOver ==
    SelectSeq(gameState.collectibles, LAMBDA c : c.x < 800 * Scale)

\* C13: no collectible of the active set overlaps the player, in any state;
\* what a tick collects has left the set, so it cannot be collected again,
\* and a tick that raises the score has taken a collectible out of the set.
C13_CollectedIsRemoved ==
    /\ \A i \in 1..Len(gameState.collectibles) :
          ~Overlaps(gameState.player, gameState.collectibles[i])
    /\ ExecutedTick =>
          /\ Len(CarriedOver) + lastAct.collected <= Len(pre.collectibles)
          /\ gameState.score > pre.score => lastAct.collected > 0
          /\ gameState.score <= pre.score + 40 * lastAct.collected

\* a tick collected one collectible and the active set still holds another
C13_Witness ==
    /\ ExecutedTick
    /\ lastAct.collected = 1
    /\ Len(pre.collectibles) = 1
    /\ CarriedOver = <<>>
    /\ Len(gameState.collectibles) = 1
    /\ gameState.score > pre.score

\* C14: a request to pause (a key other than Space: the one input of the
\* component that is not bound to the jump or to Play Again) made while
\* Playing sets isPaused and changes nothing else, and made while Paused
\* clears isPaused and changes nothing else.
C14_PauseTogglesIsPaused ==
    lastAct.op \in KeyCodes \ {"Space"} =>
        /\ Playing(pre) => gameState = [pre EXCEPT !.isPaused = TRUE]
        /\ pre.isPaused => gameState = [pre EXCEPT !.isPaused = FALSE]

\* what the code does instead: no state is paused
C14_NeverPaused == ~gameState.isPaused /\ ~pre.isPaused

\* C15: a jump sets the player's velocity to exactly -7, whatever the velocity
\* and the position were (also right after another jump), and changes no
\* other field of the session.
C15_JumpSetsVelocity ==
    lastAct.op = "jump" =>
        /\ gameState.player.velocity = -7 * Scale
        /\ gameState = [pre EXCEPT !.player.velocity = -7 * Scale]

\* a jump in mid-air right after another jump
C15_Witness ==
    /\ lastAct.op = "jump"
    /\ pre.player.velocity = -7 * Scale
    /\ pre.player.y < 300 * Scale
    /\ gameState.player.y = pre.player.y

\* the expiries for flag that the last tick armed
ArmedFor(flag) == SelectSeq(lastAct.armed, LAMBDA t : t.flag = flag)

\* C16: every pickup of a power-up arms an expiry of its own (3000 ms for a
\* diamondHands, 5000 ms for a moonRocket), also when the flag is already
\* set; the flag does not stack; an expiry that fires clears its flag, and
\* nothing else, even though a later pickup's expiry for it is still pending.
C16_NoExtension ==
    /\ ExecutedTick =>
          /\ Len(ArmedFor("isInvincible")) = PickedUp("diamondHands")
          /\ Len(ArmedFor("hasDoublePoints")) = PickedUp("moonRocket")
          /\ \A i \in 1..Len(lastAct.armed) :
                lastAct.armed[i].delay =
                    IF lastAct.armed[i].flag = "isInvincible" THEN 3000 ELSE 5000
          /\ gameState.player.isInvincible =
                (pre.player.isInvincible \/ PickedUp("diamondHands") > 0)
          /\ gameState.player.hasDoublePoints =
                (pre.player.hasDoublePoints \/ PickedUp("moonRocket") > 0)
    /\ lastAct.op = "isInvincible" =>
          gameState = [pre EXCEPT !.player.isInvincible = FALSE]
    /\ lastAct.op = "hasDoublePoints" =>
          gameState = [pre EXCEPT !.player.hasDoublePoints = FALSE]

\* the expiry of the first of two diamondHands of one session has fired and
\* cleared the flag; the expiry of the second is pending
C16_Witness ==
    /\ lastAct.op = "isInvincible"
    /\ ~lastAct.stale
    /\ pre.player.isInvincible
    /\ ~gameState.player.isInvincible
    /\ PendingOwn("isInvincible")
    /\ \A i \in 1..Len(timeouts) : ~timeouts[i].stale

\* the entities of es that are not yet fully off the left edge
OnPlayfield(es) == SelectSeq(es, LAMBDA e : e.x + e.width > 0)

\* C17: a tick executed while Playing removes by scrolling exactly the
\* entities that were fully off the left edge when it started (x + width <= 0,
\* for collectibles of width 40 and obstacles of width 60 alike); every other
\* entity, unless the tick collects it, is carried over with a strictly
\* smaller x.
C17_RemovedOnlyWhenOffPlayfield ==
    ExecutedTick =>
        LET keptO == OnPlayfield(pre.obstacles)
            keptC == OnPlayfield(pre.collectibles)
            newO == Len(gameState.obstacles) - Len(keptO)
        IN  /\ newO \in {0, 1}
            /\ \A i \in 1..Len(keptO) :
                  /\ i <= Len(gameState.obstacles)
                  /\ gameState.obstacles[i].y = keptO[i].y
                  /\ gameState.obstacles[i].x < keptO[i].x
            /\ Len(CarriedOver) + lastAct.collected = Len(keptC)
            /\ \A i \in 1..Len(CarriedOver) :
                  \E j \in 1..Len(keptC) :
                      /\ CarriedOver[i].y = keptC[j].y
                      /\ CarriedOver[i].x < keptC[j].x

\* entity e lies within the vertical extent of the playfield
InsidePlayfield(e) == e.y >= 0 /\ e.y + e.height <= 600 * Scale

\* C18: an entity spawned by a tick starts at x = 800, and every active
\* collectible and obstacle lies entirely within the vertical extent of the
\* playfield: y >= 0 and y + height <= 600.
C18_SpawnedInsidePlayfield ==
    /\ \A i \in 1..Len(gameState.collectibles) :
          /\ InsidePlayfield(gameState.collectibles[i])
          /\ gameState.collectibles[i].x <= 800 * Scale
    /\ \A i \in 1..Len(gameState.obstacles) :
          /\ InsidePlayfield(gameState.obstacles[i])
          /\ gameState.obstacles[i].x <= 800 * Scale
    /\ ExecutedTick =>
          /\ Len(gameState.obstacles) > Len(pre.obstacles)
                => gameState.obstacles[Len(gameState.obstacles)].x = 800 * Scale
          /\ Len(gameState.collectibles) + lastAct.collected > Len(pre.collectibles)
                => gameState.collectibles[Len(gameState.collectibles)].x = 800 * Scale

\* C19: at every score s the difficulty multiplier is 1 + 0.2 * floor(s / 100):
\* from each score to the next it never decreases, and it rises, by exactly
\* 0.2, at the multiples of 100 only; the spawn probabilities are
\* min(0.015 * multiplier, 0.03) and min(0.008 * multiplier, 0.02), so they
\* never decrease from a score to the next and never exceed 0.03 and 0.02;
\* the speeds are 3 * multiplier and 4 * multiplier, and a tick scrolls the
\* collectibles and the obstacles by them.  (The scores of the sessions are
\* the multiples of 5: the steps are checked over the five scores up to s.)
C19_DifficultyModel ==
    LET s == gameState.score
        m == getDifficultyMultiplier(s)
    IN  /\ m = Scale + 2 * (s \div 100)
        /\ \A t \in Max(1, s - 4)..s :
              /\ getDifficultyMultiplier(t - 1) <= getDifficultyMultiplier(t)
              /\ getDifficultyMultiplier(t) - getDifficultyMultiplier(t - 1) =
                    IF t % 100 = 0 THEN 2 ELSE 0
              /\ getSpawnRates(t - 1).collectible <= getSpawnRates(t).collectible
              /\ getSpawnRates(t - 1).obstacle <= getSpawnRates(t).obstacle
        /\ getSpawnRates(s).collectible =
              (IF 15 * m <= 30 * Scale THEN 15 * m ELSE 30 * Scale)
        /\ getSpawnRates(s).obstacle =
              (IF 8 * m <= 20 * Scale THEN 8 * m ELSE 20 * Scale)
        /\ getSpawnRates(s).collectible <= 30 * Scale
        /\ getSpawnRates(s).obstacle <= 20 * Scale
        /\ getSpeeds(s).horizontal = 3 * m
        /\ getSpeeds(s).obstacle = 4 * m
        /\ (ExecutedTick /\ lastAct.collected = 0) =>
              \E deltaTime \in DifficultyDeltaTimes :
                  /\ \A i \in 1..Len(pre.collectibles) :
                        gameState.collectibles[i].x =
                            pre.collectibles[i].x
                            - (3 * (Scale + 2 * (pre.score \div 100)) * deltaTime) \div 16
                  /\ \A i \in 1..Len(pre.obstacles) :
                        gameState.obstacles[i].x =
                            pre.obstacles[i].x
                            - (4 * (Scale + 2 * (pre.score \div 100)) * deltaTime) \div 16

\* at score 800 (multiplier 2.6) both spawn probabilities are at their caps and
\* a tick has scrolled a collectible and an obstacle
C19_Witness ==
    /\ ExecutedTick
    /\ pre.score = 800
    /\ pre.collectibles # <<>>
    /\ pre.obstacles # <<>>
    /\ getDifficultyMultiplier(pre.score) = 26
    /\ getSpawnRates(pre.score) = [collectible |-> 300, obstacle |-> 200]
    /\ gameState.obstacles[1].x < pre.obstacles[1].x

\* an expiry callback for flag is pending, of this session or of an earlier one
Pending(flag) == \E i \in 1..Len(timeouts) : timeouts[i].flag = flag

\* C20: while hasDoublePoints (isInvincible) is set, an expiry callback for it
\* is pending; hence once every armed expiry has fired both flags are clear.
\* An expiry that fires leaves its flag clear.
C20_FlagHasPendingExpiry ==
    /\ gameState.player.hasDoublePoints => Pending("hasDoublePoints")
    /\ gameState.player.isInvincible => Pending("isInvincible")
    /\ timeouts = <<>> =>
          ~gameState.player.hasDoublePoints /\ ~gameState.player.isInvincible
    /\ ExpiryRan =>
          IF lastAct.op = "isInvincible"
          THEN ~gameState.player.isInvincible
          ELSE ~gameState.player.hasDoublePoints

\* both power-ups were collected and the invincibility has expired: double
\* points is still set and its expiry is the one left pending
C20_Witness ==
    /\ lastAct.op = "isInvincible"
    /\ pre.player.isInvincible
    /\ gameState.player.hasDoublePoints
    /\ Len(timeouts) = 1
    /\ Pending("hasDoublePoints")

\* C21: a tick that collects a diamondHands while the player, not invincible
\* when the tick started and with time left, overlaps an obstacle does not
\* set isGameOver: the invincibility it arms protects in the same tick.
C21_ProtectedInPickupTick ==
    (/\ ExecutedTick
     /\ ~pre.player.isInvincible
     /\ pre.timeLeft > 0
     /\ PickedUp("diamondHands") > 0
     /\ OverlapsObstacle(gameState))
        => ~gameState.isGameOver /\ gameState.player.isInvincible

\* one tick carried a diamondHands and an obstacle onto a player who was not
\* invincible, and the session went on
C21_Witness ==
    /\ ExecutedTick
    /\ ~pre.player.isInvincible
    /\ pre.timeLeft > 0
    /\ PickedUp("diamondHands") = 1
    /\ OverlapsObstacle(gameState)
    /\ ~gameState.isGameOver
    /\ Len(ArmedFor("isInvincible")) = 1

====
